---- MODULE Spec2Model ----
(***************************************************************************)
(* Model of the torrent client's piece bookkeeping: the shared Bitfield,   *)
(* the Metadata counters, the Pieces store (resume scan, block writes,     *)
(* per-piece SHA-1 verification) and the Peer session state machine that   *)
(* pulls assignments from the bitfield and streams blocks to the store.    *)
(*                                                                         *)
(* File I/O follows the io_uring build of AsyncFile: a write or read is    *)
(* started by one handler and completed by a later one, in any order.  The *)
(* fallback build (completion inline) is the special case in which every   *)
(* completion directly follows its start.                                  *)
(***************************************************************************)
EXTENDS Integers, Sequences, FiniteSets, Bags, TLC

(***************************************************************************)
(* Bounds of the model.                                                    *)
(***************************************************************************)
NPeers == 2
MaxPieces == 2
MaxBlocks == 2
ThreadCount == 2
MaxEvents == 4
MaxCalls == 3
UnitBytes == 2
request_per_call == 2
NWaiters == 1
NUrls == 2
MaxTrackers == 2

(***************************************************************************)
(* Program constants.                                                      *)
(***************************************************************************)
BLOCK_LENGTH == 16384
\* UdpTracker::Action
Connect == 0
Announce == 1
Scrape == 2
Error == 3

(***************************************************************************)
(* std::size_t values are residues modulo 2^64.  A residue is represented  *)
(* by its member of least absolute value, so that 0 - 1 is written -1 and  *)
(* stands for 2^64 - 1; ULess is the unsigned order on these members.      *)
(***************************************************************************)
ULess(a, b) ==
    IF a >= 0 /\ b >= 0 THEN a < b
    ELSE IF a < 0 /\ b < 0 THEN a < b
    ELSE b < 0

UMin(a, b) == IF ULess(b, a) THEN b ELSE a

None == -1
Throw == -2

Peers == 1..NPeers
\* The remote addresses peers are added with (keys of PeerManager::peers).
Endpoints == 1..NPeers
\* The threads that call Client::wait, the announce URLs, the Tracker objects.
Waiters == 1..NWaiters
Urls == 1..NUrls
Trackers == 1..MaxTrackers
Threads == 0..(ThreadCount - 1)

RECURSIVE Pow2(_)
Pow2(k) == IF k = 0 THEN 1 ELSE 2 * Pow2(k - 1)

(***************************************************************************)
(* std::uint8_t arithmetic used by Bitfield.                               *)
(***************************************************************************)
BitOf(value, k) == (value \div Pow2(k)) % 2

RECURSIVE FromBits(_, _)
FromBits(f, k) == IF k < 0 THEN 0 ELSE f[k] * Pow2(k) + FromBits(f, k - 1)

Or8(a, b) == FromBits([k \in 0..7 |-> IF BitOf(a, k) = 1 \/ BitOf(b, k) = 1 THEN 1 ELSE 0], 7)
And8(a, b) == FromBits([k \in 0..7 |-> IF BitOf(a, k) = 1 /\ BitOf(b, k) = 1 THEN 1 ELSE 0], 7)
Not8(a) == 255 - a
Shl8(v, k) == (v * Pow2(k)) % 256

(***************************************************************************)
(* Bitfield.  A bit vector is a sequence of bytes; byte i of the source is *)
(* element i + 1.                                                          *)
(***************************************************************************)
has_piece_internal(v, piece_index) ==
    BitOf(v[(piece_index \div 8) + 1], 7 - (piece_index % 8)) = 1

has_piece(v, piece_index) ==
    IF piece_index \div 8 >= Len(v) THEN FALSE
    ELSE has_piece_internal(v, piece_index)

set_piece_internal(v, piece_index, value) ==
    [v EXCEPT ![(piece_index \div 8) + 1] =
        Or8(@, Shl8(value, 7 - (piece_index % 8)))]

\* Variant of assign_bit that tests value >> j: the bits of a byte are walked
\* from the least significant one.
RECURSIVE assign_bit_lsb_first(_, _)
assign_bit_lsb_first(value, j) ==
    IF j >= 8 THEN None
    ELSE IF BitOf(value, j) # 0 THEN j
    ELSE assign_bit_lsb_first(value, j + 1)

RECURSIVE assign_bit(_, _)
assign_bit(value, j) ==
    IF j >= 8 THEN None
    ELSE IF BitOf(value, 7 - j) # 0 THEN j
    ELSE assign_bit(value, j + 1)

\* Variant of AssignMark that leaves the found bit clear.
AssignMark_skipped(v, i, j) == v

\* Line 123 of assign_piece: vec[i] |= 1 << (7 - j).
AssignMark(v, i, j) == [v EXCEPT ![i + 1] = Or8(@, Shl8(1, 7 - j))]

RECURSIVE assign_scan(_, _, _)
assign_scan(v, pv, i) ==
    IF i >= Len(v) THEN [vec |-> v, ret |-> None]
    ELSE LET value == And8(Not8(v[i + 1]), pv[i + 1])
             j == assign_bit(value, 0)
         IN  IF value # 0 /\ j # None
             THEN [vec |-> AssignMark(v, i, j), ret |-> i * 8 + j]
             ELSE assign_scan(v, pv, i + 1)

Bitfield_assign_piece(v, pv) ==
    IF Len(v) # Len(pv) THEN [vec |-> v, ret |-> Throw]
    ELSE assign_scan(v, pv, 0)

(***************************************************************************)
(* State.                                                                  *)
(*   geo      torrent geometry held by Metadata (piece_length, total_length)*)
(*   disk     working file, one entry per BLOCK_LENGTH bytes: TRUE when the*)
(*            block holds the torrent's bytes for that position            *)
(*   vec      Pieces::bitfield (the shared bitfield)                       *)
(*   callback which on_piece_complete handler the shared bitfield holds    *)
(*   md       Metadata counters                                            *)
(*   running  Pieces::running;  extracted counts extract_torrent() calls   *)
(*   peer     the Peer objects;  peers, active_peers belong to PeerManager*)
(*   writes, checks  file operations started and not yet completed         *)
(*   scan     the resume scan's worker threads                             *)
(*   ready    Metadata::ready;  waiter: the threads calling Client::wait   *)
(*   trackers TrackerManager::trackers;  tracker: the Tracker objects      *)
(*   phase    position of the main thread; "crashed": the process died     *)
(*   hist     history of bitfield calls, read only by the properties       *)
(***************************************************************************)
VARIABLES geo, disk, vec, callback, md, running, extracted, peer, peers,
          ready, waiter, trackers, tracker,
          active_peers, writes, checks, scan, phase, events, hist

vars == <<geo, disk, vec, callback, md, running, extracted, peer, peers,
          ready, waiter, trackers, tracker,
          active_peers, writes, checks, scan, phase, events, hist>>

piece_length == geo.piece_length
total_length == geo.total_length

\* Metadata::get_piece_count: pieces.size() / 20, one hash per piece.
get_piece_count == (total_length \div piece_length)
                   + (IF total_length % piece_length # 0 THEN 1 ELSE 0)

get_block_count == piece_length \div BLOCK_LENGTH

\* Pieces::init_file: bytes of the shared bitfield.
BitfieldSize == (get_piece_count \div 8)
                + (IF get_piece_count % 8 # 0 THEN 1 ELSE 0)

Zeros(n) == [k \in 1..n |-> 0]

\* Length in bytes of piece i of the torrent.
TruePieceLength(i) ==
    IF i = get_piece_count - 1
    THEN total_length - (get_piece_count - 1) * piece_length
    ELSE piece_length

BlocksOfFile == 0..((total_length + BLOCK_LENGTH - 1) \div BLOCK_LENGTH) - 1

\* Blocks of the file that the byte range [offset, offset + length) touches.
BlocksIn(offset, length) ==
    {g \in BlocksOfFile :
        g * BLOCK_LENGTH < offset + length /\ (g + 1) * BLOCK_LENGTH > offset}

(***************************************************************************)
(* SHA-1 is modelled by what decides equality of two digests: the number   *)
(* of bytes hashed and whether those bytes are the torrent's bytes.        *)
(***************************************************************************)
check_sha1_piece(d, piece_index, length) ==
    /\ piece_index < get_piece_count
    /\ length = TruePieceLength(piece_index)
    /\ \A g \in BlocksIn(piece_index * piece_length, length) : d[g]

\* The verdict check_sha1_piece_async passes to on_finish when its read
\* succeeds: the buffer it hashes has piece_length bytes for every piece.
check_sha1_piece_async(d, piece_index) ==
    check_sha1_piece(d, piece_index, piece_length)

\* The verdict of check_pieces_sha1 for piece i: the buffer is resized to
\* the rest of the file for the last piece.
check_pieces_sha1(d, i) ==
    LET length == IF i = get_piece_count - 1 THEN total_length - i * piece_length
                  ELSE piece_length
    IN  check_sha1_piece(d, i, length)

(***************************************************************************)
(* The handlers below are functions on the record W of the mutable state,  *)
(* so that a handler that calls another is their composition.              *)
(***************************************************************************)
W == [vec |-> vec, callback |-> callback, md |-> md, running |-> running,
      extracted |-> extracted, peer |-> peer, peers |-> peers,
      ready |-> ready, waiter |-> waiter, trackers |-> trackers, tracker |-> tracker,
      active_peers |-> active_peers, writes |-> writes, checks |-> checks,
      disk |-> disk, hist |-> hist, exc |-> FALSE, held |-> {}, most |-> {}]

\* The thread running the handler takes and releases a mutex.  held are the
\* mutexes it holds, most the largest set it has held at once.
lock(w, m) ==
    LET held == w.held \cup {m}
    IN  [w EXCEPT !.held = held,
                  !.most = IF Cardinality(held) > Cardinality(@) THEN held ELSE @]

unlock(w, m) == [w EXCEPT !.held = @ \ {m}]

is_file_complete(w) ==
    ((total_length \div piece_length)
        + (IF total_length % piece_length # 0 THEN 1 ELSE 0)) = w.md.pieces_done

Metadata_on_piece_complete(w, piece_index) ==
    unlock([lock(w, "metadata") EXCEPT
              !.md.pieces_done = @ + 1,
              !.md.left = IF piece_index = get_piece_count - 1
                          THEN @ - (total_length - (get_piece_count - 1) * piece_length)
                          ELSE @ - piece_length], "metadata")

\* condition_variable::notify_all: every thread blocked on the variable wakes
\* and tests its predicate again.
notify_all(w, blocked, woken) ==
    [w EXCEPT !.waiter = [t \in DOMAIN @ |-> IF @[t] = blocked THEN woken ELSE @[t]]]

Pieces_stop(w) ==
    notify_all([w EXCEPT !.running = FALSE], "pieces_blocked", "pieces_test")

Metadata_stop(w) ==
    notify_all([w EXCEPT !.ready = TRUE], "metadata_blocked", "metadata_test")

TrackerManager_stop(w) == [w EXCEPT !.trackers = [a \in DOMAIN @ |-> None]]

PeerManager_stop(w) == [w EXCEPT !.peers = [e \in DOMAIN @ |-> None]]

\* Client::stop, as written: the fourth call is made on tracker_manager.
Client_stop(w) ==
    TrackerManager_stop(TrackerManager_stop(Pieces_stop(Metadata_stop(w))))

extract_torrent(w) == [w EXCEPT !.extracted = @ + 1]

\* The two lambdas init_file installs with set_on_piece_complete.
on_piece_complete(w, piece_index) ==
    LET w1 == Metadata_on_piece_complete(w, piece_index)
        w2 == [w1 EXCEPT !.hist.notified[piece_index] = @ + 1]
    IN  IF w.callback = "scan" THEN w2
        ELSE IF ~is_file_complete(w2) THEN w2
        ELSE Pieces_stop(extract_torrent(w2))

piece_success(w, piece_index) ==
    LET w0 == lock(w, "bitfield")
    IN  IF piece_index # None /\ w.callback # "none"
        THEN on_piece_complete(unlock(w0, "bitfield"), piece_index)
        ELSE unlock(w0, "bitfield")

piece_failed(w, piece_index) ==
    LET w0 == lock(w, "bitfield")
    IN  unlock(IF piece_index # None
               THEN [w0 EXCEPT !.vec = set_piece_internal(@, piece_index, 0)]
               ELSE w0, "bitfield")

\* Variant of set_piece_guard without the has_piece_internal test.
set_piece_guard_bounds_only(v, piece_index) == piece_index \div 8 < Len(v)

\* The test set_piece makes under its lock before it fires the callback.
set_piece_guard(v, piece_index) ==
    /\ piece_index \div 8 < Len(v)
    /\ ~has_piece_internal(v, piece_index)

\* set_piece run by one thread with no other thread in the bitfield.
set_piece(w, piece_index) ==
    IF ~set_piece_guard(w.vec, piece_index) THEN w
    ELSE LET w1 == IF w.callback # "none" THEN on_piece_complete(w, piece_index) ELSE w
         IN  [w1 EXCEPT !.vec = set_piece_internal(@, piece_index, 1)]

(***************************************************************************)
(* Peer.                                                                   *)
(***************************************************************************)
\* Peer::send_message: the bytes of the message are handed to
\* socket.async_send at once; sending holds the messages whose completion
\* handler has not run yet.  Only SpecRequests schedules these handlers
\* (SendMessageDone); they change nothing but sending.
send_message(w, p, id) == [w EXCEPT !.peer[p].sending = Append(@, id)]

RECURSIVE send_loop(_, _, _, _)
send_loop(w, p, cb, end_block) ==
    IF ~ULess(cb, end_block) THEN [w EXCEPT !.peer[p].current_block = cb]
    ELSE
      LET piece_index == w.peer[p].current_piece_index
          begin == cb * BLOCK_LENGTH
          len0 == IF cb = get_block_count - 1 THEN piece_length - begin
                  ELSE BLOCK_LENGTH
          start == piece_index * piece_length + begin
          last == piece_index = get_piece_count - 1 /\ start + len0 >= total_length
          length == IF last THEN total_length - start ELSE len0
          message == [index |-> piece_index, begin |-> begin, length |-> length]
          w1 == send_message(
                    [w EXCEPT !.peer[p].outstanding = @ \cup {message},
                              !.hist.requests[p] = Append(@, message)], p, "Request")
      IN  IF last THEN [w1 EXCEPT !.peer[p].current_block = cb]
          ELSE send_loop(w1, p, cb + 1, end_block)

\* Called with current_piece_index holding a value (its callers test it).
send_requests(w, p) ==
    LET end_block == UMin(get_block_count, w.peer[p].current_block + request_per_call)
        w1 == [w EXCEPT !.peer[p].piece_received = 0]
    IN  send_loop(w1, p, w.peer[p].current_block, end_block)

\* Bitfield::assign_piece runs with the mutex of the shared bitfield and the
\* mutex of the remote bitfield both taken.
Peer_assign_piece(w0, p) ==
    LET r == Bitfield_assign_piece(w0.vec, w0.peer[p].peer_bitfield)
        w == unlock(unlock(lock(lock(w0, "bitfield"), "peer_bitfield"),
                           "peer_bitfield"), "bitfield")
    IN  IF r.ret = Throw THEN [w EXCEPT !.exc = TRUE]
        ELSE IF r.ret # None
        THEN send_requests(
                [w EXCEPT !.vec = r.vec,
                          !.hist.requests[p] = <<>>,
                          !.peer[p].current_piece_index = r.ret,
                          !.peer[p].current_block = 0,
                          !.peer[p].state = "DownloadingPiece"], p)
        ELSE [w EXCEPT !.peer[p].current_piece_index = None,
                       !.peer[p].timer = TRUE]

PeerManager_remove(w, endpoint) ==
    LET peer_it == w.peers[endpoint]
    IN  IF peer_it = None THEN w
        ELSE [w EXCEPT !.active_peers = IF w.peer[peer_it].state = "Handshook"
                                        THEN @ - 1 ELSE @,
                       !.peers[endpoint] = None]

change_state(w, p, new_state) ==
    LET w0 == [w EXCEPT !.peer[p].state = new_state]
    IN  CASE new_state = "Connected" ->
                [w0 EXCEPT !.peer[p].conn = "handshaking"]
          [] new_state = "Disconnected" ->
                PeerManager_remove(piece_failed(w0, w0.peer[p].current_piece_index),
                                   w0.peer[p].endpoint)
          [] new_state = "Handshook" ->
                send_message([w0 EXCEPT !.peer[p].handshook = TRUE,
                                        !.active_peers = @ + 1,
                                        !.peer[p].greeting = TRUE,
                                        !.peer[p].conn = "open"], p, "Bitfield")
          [] new_state = "Idle" ->
                LET w1 == piece_failed(w0, w0.peer[p].current_piece_index)
                    w2 == IF w1.peer[p].peer_bitfield = <<>>
                          THEN [w1 EXCEPT !.peer[p].peer_bitfield = Zeros(Len(w1.vec))]
                          ELSE w1
                IN  IF ~w2.peer[p].peer_choking THEN Peer_assign_piece(w2, p) ELSE w2
          [] new_state = "DownloadingPiece" -> send_requests(w0, p)

\* The completion handler on_message passes to write_block_async.
\* It runs with the mutex of the session taken.
on_write_finished(w0, p, error, finished, hashed) ==
    LET w == lock(w0, "peer")
    IN  unlock(
        IF w.peer[p].current_piece_index = None THEN w
        ELSE
          LET w1 == [w EXCEPT !.peer[p].piece_received = @ + 1]
          IN  IF error THEN [w1 EXCEPT !.peer[p].current_block = @ - request_per_call]
              ELSE IF finished
              THEN LET cpi == w1.peer[p].current_piece_index
                       w2 == [w1 EXCEPT !.hist.successes =
                                  @ \cup {[counted |-> cpi, hashed |-> hashed]}]
                   IN  change_state(piece_success(w2, cpi), p, "Idle")
              ELSE IF ULess(w1.peer[p].current_block, get_block_count)
                      /\ w1.peer[p].piece_received = request_per_call
              THEN send_requests(w1, p)
              ELSE w1, "peer")

(***************************************************************************)
(* Initial states: a torrent file has been parsed (Metadata is ready) and  *)
(* Client::start calls Pieces::init_file.  The working file either did not *)
(* exist (all blocks wrong, no scan) or existed with each piece either     *)
(* holding the torrent's bytes or not.                                     *)
(***************************************************************************)
PieceCountOf(g) == (g.total_length \div g.piece_length)
                   + (IF g.total_length % g.piece_length # 0 THEN 1 ELSE 0)

Geometries ==
    {g \in [piece_length : {BLOCK_LENGTH * b : b \in 1..MaxBlocks},
            total_length : {BLOCK_LENGTH * n : n \in 1..(MaxBlocks * MaxPieces)}] :
        PieceCountOf(g) <= MaxPieces}

BlocksOf(g) == 0..(g.total_length \div BLOCK_LENGTH) - 1

DisksOf(g) ==
    {[b \in BlocksOf(g) |-> (b * BLOCK_LENGTH) \div g.piece_length \in good] :
        good \in SUBSET (0..PieceCountOf(g) - 1)}

\* Packet::write: the size bytes of an unsigned integer, most significant
\* first (values here stay below 2^31, so the bytes above the fourth are 0).
write(value, size) ==
    [i \in 1..size |-> IF size - i >= 4 THEN 0 ELSE (value \div (256 ^ (size - i))) % 256]

be64(value) == write(value, 8)

\* Packet::read: the memcpy of size bytes at offset, and big_to_native of a
\* 32-bit value.
read(bytes, offset, size) == SubSeq(bytes, offset + 1, offset + size)

big_to_native(b) == ((b[1] * 256 + b[2]) * 256 + b[3]) * 256 + b[4]

\* Largest piece index the history keeps a count for.
MaxIndex == 8 * UnitBytes

NoCall == [op |-> "none", arg |-> None, self |-> <<>>, other |-> <<>>,
           ret |-> None, after |-> <<>>, fired |-> FALSE, fresh |-> TRUE]

\* What the history keeps of the datagram a tracker received last: whether it
\* answered the first Connect request, whether it was invalid for its request,
\* the connection id it carried, and, when it was an Announce response of
\* 20 + 6 * n bytes to an Announce request, its n compact peers.
NoDatagram == [first |-> FALSE, invalid |-> FALSE, connection_id |-> be64(0),
               announce |-> FALSE, endpoints |-> <<>>]

\* requests[p] are the Request messages session p has sent since a piece was
\* assigned to it last, in the order of the send_message calls.
InitHist == [notified |-> [i \in 0..MaxIndex |-> 0], successes |-> {},
             last |-> NoCall, returned |-> {}, calls |-> 0,
             set_fired |-> [i \in 0..MaxIndex |-> 0], rejected |-> {},
             datagram |-> NoDatagram, requests |-> [p \in Peers |-> <<>>]]

InitPeer == [state |-> "Disconnected", conn |-> "none", handshook |-> FALSE,
             peer_choking |-> TRUE, current_piece_index |-> None,
             current_block |-> 0, piece_received |-> 0,
             peer_bitfield |-> <<>>, timer |-> FALSE, outstanding |-> {},
             greeting |-> FALSE, endpoint |-> None, sending |-> <<>>]

\* run_sha1_checksum_multithread: the range of pieces of worker i.
ScanStart(g, i) == i * (PieceCountOf(g) \div ThreadCount)
ScanEnd(g, i) == IF i = ThreadCount - 1 THEN PieceCountOf(g)
                 ELSE ScanStart(g, i) + (PieceCountOf(g) \div ThreadCount)

InitScan(g) ==
    [t \in Threads |->
        [pc |-> IF ScanStart(g, t) < ScanEnd(g, t) THEN "check" ELSE "done",
         i |-> ScanStart(g, t), end |-> ScanEnd(g, t), tmp |-> 0]]

IdleScan == [t \in Threads |-> [pc |-> "done", i |-> 0, end |-> 0, tmp |-> 0]]

\* A Tracker object not yet created by Tracker::create_tracker.  requests are
\* the send_request calls whose handlers have not finished, oldest first;
\* new_peers are the endpoints handed to on_new_peer; log is the last line the
\* receive handler logged.  adding is the argument of the TrackerManager::add
\* call that is creating the object (None once it returned); removing tells
\* whether an on_disconnect of the object waits for the manager's mutex, and
\* whether it read announce while that add call was still running.
InitTracker == [announce |-> None, conn |-> "none", state |-> "Disconnected",
                adding |-> None, removing |-> "no",
                connection_id |-> be64(0), requests |-> <<>>,
                connection_id_timer |-> FALSE, interval_timer |-> FALSE,
                new_peers |-> <<>>, log |-> "none"]

InitCommon ==
    /\ vec = Zeros((PieceCountOf(geo) \div 8) + (IF PieceCountOf(geo) % 8 # 0 THEN 1 ELSE 0))
    /\ md = [pieces_done |-> 0, left |-> geo.total_length, downloaded |-> 0,
             info |-> ready]
    /\ running = TRUE
    /\ extracted = 0
    /\ peer = [p \in Peers |-> InitPeer]
    /\ peers = [e \in Endpoints |-> None]
    /\ active_peers = 0
    /\ writes = EmptyBag
    /\ checks = EmptyBag
    /\ events = 0
    /\ hist = InitHist
    /\ waiter = [t \in Waiters |-> "idle"]
    /\ trackers = [a \in Urls |-> None]
    /\ tracker = [k \in Trackers |-> InitTracker]

Init ==
    /\ geo \in Geometries
    /\ ready = TRUE
    /\ InitCommon
    /\ \E file_exists \in BOOLEAN :
         IF file_exists
         THEN /\ disk \in DisksOf(geo)
              /\ callback = "scan"
              /\ scan = InitScan(geo)
              /\ phase = "scan"
         ELSE /\ disk = [b \in BlocksOf(geo) |-> FALSE]
              /\ callback = "final"
              /\ scan = IdleScan
              /\ phase = "download"

Commit(w0) ==
    \E w \in {IF w0.exc THEN Client_stop(w0) ELSE w0} :
        /\ vec' = w.vec
        /\ ready' = w.ready
        /\ waiter' = w.waiter
        /\ trackers' = w.trackers
        /\ tracker' = w.tracker
        /\ callback' = w.callback
        /\ md' = w.md
        /\ running' = w.running
        /\ extracted' = w.extracted
        /\ peer' = w.peer
        /\ peers' = w.peers
        /\ active_peers' = w.active_peers
        /\ writes' = w.writes
        /\ checks' = w.checks
        /\ disk' = w.disk
        /\ hist' = w.hist

(***************************************************************************)
(* Resume scan (Pieces::check_pieces_sha1 on ThreadCount workers).         *)
(* set_piece releases the lock before the callback and writes the byte     *)
(* after it, so the write  vec[i / 8] |= bit  of one worker is a load and  *)
(* a store that the other workers' loads and stores can fall between.      *)
(***************************************************************************)
ScanAdvance(s) ==
    [s EXCEPT !.i = @ + 1, !.pc = IF s.i + 1 < s.end THEN "check" ELSE "done"]

ScanCheck(t) ==
    /\ phase = "scan"
    /\ scan[t].pc = "check"
    /\ LET i == scan[t].i
       IN  IF check_pieces_sha1(disk, i) /\ set_piece_guard(vec, i)
           THEN /\ Commit(on_piece_complete(W, i))
                /\ scan' = [scan EXCEPT ![t].pc = "load"]
           ELSE /\ scan' = [scan EXCEPT ![t] = ScanAdvance(@)]
                /\ UNCHANGED <<vec, callback, md, running, extracted, peer, peers,
                               ready, waiter, trackers, tracker,
                               active_peers, writes, checks, disk, hist>>
    /\ UNCHANGED <<geo, phase, events>>

ScanLoad(t) ==
    /\ phase = "scan"
    /\ scan[t].pc = "load"
    /\ scan' = [scan EXCEPT ![t].pc = "store", ![t].tmp = vec[(scan[t].i \div 8) + 1]]
    /\ UNCHANGED <<geo, disk, vec, callback, md, running, extracted, peer, peers,
          ready, waiter, trackers, tracker,
                   active_peers, writes, checks, phase, events, hist>>

ScanStore(t) ==
    /\ phase = "scan"
    /\ scan[t].pc = "store"
    /\ vec' = set_piece_internal(
                [vec EXCEPT ![(scan[t].i \div 8) + 1] = scan[t].tmp], scan[t].i, 1)
    /\ scan' = [scan EXCEPT ![t] = ScanAdvance(@)]
    /\ UNCHANGED <<geo, disk, callback, md, running, extracted, peer, peers,
          ready, waiter, trackers, tracker,
                   active_peers, writes, checks, phase, events, hist>>

\* The threads are joined; the rest of run_sha1_checksum_multithread and of
\* init_file.
ScanJoin ==
    /\ phase = "scan"
    /\ \A t \in Threads : scan[t].pc = "done"
    /\ IF is_file_complete(W)
       THEN Commit(Pieces_stop(extract_torrent(W)))
       ELSE Commit([W EXCEPT !.callback = "final"])
    /\ phase' = "download"
    /\ UNCHANGED <<geo, scan, events>>

(***************************************************************************)
(* Download.  Every action below is one completion handler run by a worker *)
(* of the io_context.  The workers keep running handlers after             *)
(* Pieces::stop() has woken main, until main gets to io_context.stop();    *)
(* the model puts no bound on that delay.                                  *)
(* events counts the inputs the remote peers and the file system choose.   *)
(***************************************************************************)
Serving == phase = "download"

\* PeerManager::add and Peer::connect.  The Peer objects are created in the
\* order of their numbers, each after the connect and handshake handlers of
\* the one before it: these handlers touch their own Peer only and commute
\* with every handler of another Peer.
Add(p, endpoint) ==
    /\ Serving
    /\ peer[p].conn = "none"
    /\ \A q \in Peers : q < p => peer[q].conn \in {"open", "closed"}
    /\ Commit([W EXCEPT !.peer[p].conn = "connecting",
                        !.peer[p].endpoint = endpoint,
                        !.peers[endpoint] = IF @ = None THEN p ELSE @])
    /\ UNCHANGED <<geo, scan, phase, events>>

\* Completion handler of async_connect.
ConnectDone(p, error) ==
    /\ Serving
    /\ peer[p].conn = "connecting"
    /\ IF error
       THEN Commit(change_state([W EXCEPT !.peer[p].conn = "closed"], p, "Disconnected"))
       ELSE Commit(change_state(W, p, "Connected"))
    /\ UNCHANGED <<geo, scan, phase, events>>

\* PeerManager::calculate_handshake: the 68 bytes this client sends, as a
\* sequence indexed from 1 (byte k of the array is element k + 1).
protocol == <<66, 105, 116, 84, 111, 114, 114, 101, 110, 116, 32,
              112, 114, 111, 116, 111, 99, 111, 108>>
info_hash == [k \in 1..20 |-> 170 + (k % 2)]
peer_id == [k \in 1..20 |-> 45 + (k % 3)]
get_handshake ==
    <<Len(protocol)>> \o protocol \o [k \in 1..8 |-> 0] \o info_hash \o peer_id

\* std::equal over the byte range [from, to) of the reply and of our handshake.
RangeEqual(buffer, from, to) ==
    \A k \in from..(to - 1) : buffer[k + 1] = get_handshake[k + 1]

is_header_equal(buffer) == RangeEqual(buffer, 0, 20)

is_info_hash_equal_reserved(buffer) == RangeEqual(buffer, 20, 40)
is_info_hash_equal(buffer) == RangeEqual(buffer, 28, 48)

\* The replies a remote peer is drawn to send: a genuine one (its own reserved
\* bits and peer id), and ours with one byte changed at the edges of each field.
EdgeOffsets == {0, 19, 20, 27, 28, 47, 48, 67}
GenuineReply ==
    [k \in 1..Len(get_handshake) |->
        IF k \in 21..28 THEN (IF k = 26 THEN 16 ELSE 0)
        ELSE IF k > 48 THEN 77 ELSE get_handshake[k]]
HandshakeReplies ==
    {GenuineReply}
    \cup {[get_handshake EXCEPT ![o + 1] = (@ + 1) % 256] : o \in EdgeOffsets}

\* Whether a reply differs from ours in the header or in the info_hash.
Differs(buffer) ==
    \E o \in (0..19) \cup (28..47) : buffer[o + 1] # get_handshake[o + 1]

\* start_handshake and listen_handshake: error stands for a failed send, a
\* failed read or a read of fewer than 68 bytes.
HandshakeDone(p, error, buffer) ==
    /\ Serving
    /\ peer[p].conn = "handshaking"
    /\ LET w0 == IF ~error /\ Differs(buffer)
                 THEN [W EXCEPT !.hist.rejected = @ \cup {p}] ELSE W
       IN IF error \/ ~is_header_equal(buffer) \/ ~is_info_hash_equal(buffer)
          THEN Commit(change_state([w0 EXCEPT !.peer[p].conn = "closed"], p, "Disconnected"))
          ELSE Commit(change_state(w0, p, "Handshook"))
    /\ UNCHANGED <<geo, scan, phase, events>>

\* A handler that let an exception escape does not issue the next read.
AfterMessage(w, p) ==
    IF w.exc THEN [w EXCEPT !.peer[p].conn = "closed"] ELSE w

Receiving(p) ==
    /\ Serving
    /\ peer[p].conn = "open"
    /\ UNCHANGED <<geo, scan, phase>>

\* An input that counts against MaxEvents.
Spend ==
    /\ events < MaxEvents
    /\ events' = events + 1

\* The completion handler of send_message_impl for the i-th message in
\* flight: an error is logged; after the Bitfield message the Unchoke
\* message is sent.
SendMessageDone(p, i, error) ==
    /\ Serving
    /\ i \in 1..Len(peer[p].sending)
    /\ LET id == peer[p].sending[i]
           w0 == [W EXCEPT !.peer[p].sending =
                     SubSeq(@, 1, i - 1) \o SubSeq(@, i + 1, Len(@))]
       IN  IF ~error /\ id = "Bitfield"
           THEN Commit(send_message(w0, p, "Unchoke"))
           ELSE Commit(w0)
    /\ UNCHANGED <<geo, scan, phase, events>>

\* listen_peer / listen_message: the read fails.
RecvError(p) ==
    /\ Receiving(p)
    /\ Commit(change_state([W EXCEPT !.peer[p].conn = "closed"], p, "Disconnected"))

RecvUnchoke(p) ==
    /\ Receiving(p)
    /\ LET w1 == [W EXCEPT !.peer[p].peer_choking = FALSE]
       IN  Commit(AfterMessage(
                IF w1.peer[p].state = "Handshook" THEN change_state(w1, p, "Idle") ELSE w1, p))

RecvChoke(p) ==
    /\ Receiving(p)
    /\ Commit([W EXCEPT !.peer[p].current_piece_index = None,
                        !.peer[p].peer_choking = TRUE])

RecvBitfield(p, payload) ==
    /\ Receiving(p)
    /\ IF Len(payload) < Len(vec)
       THEN Commit(W)
       ELSE Commit([W EXCEPT !.peer[p].peer_bitfield = payload])

\* Bitfield::set_piece of a remote bitfield, which has no on_piece_complete.
peer_set_piece(v, piece_index) ==
    IF ~set_piece_guard(v, piece_index) THEN v
    ELSE set_piece_internal(v, piece_index, 1)

\* on_message, Have: peer_bitfield->set_piece(index).  peer_bitfield is a
\* null pointer until a Bitfield message was accepted or the session became
\* Idle; calling set_piece through it is undefined: the process is killed
\* by the access to the mutex at the null object (crash), or the call has
\* no effect.
RecvHave(p, index, crash) ==
    /\ Serving
    /\ peer[p].conn = "open"
    /\ IF peer[p].peer_bitfield = <<>>
       THEN /\ phase' = IF crash THEN "crashed" ELSE phase
            /\ Commit(W)
       ELSE /\ phase' = phase
            /\ Commit([W EXCEPT !.peer[p].peer_bitfield = peer_set_piece(@, index)])
    /\ UNCHANGED <<geo, scan>>

\* Config::max_message_length as ConfigBuilder sets it.
max_message_length == 131072

\* on_message, Request: a length above max_message_length disconnects;
\* otherwise read_block_async reads the block and its handler sends the
\* Piece message.  listen_message's handler calls listen_peer after
\* on_message in both cases, so the session keeps reading.
RecvRequest(p, index, begin, length) ==
    /\ Receiving(p)
    /\ IF length > max_message_length
       THEN Commit(change_state(W, p, "Disconnected"))
       ELSE IF index >= get_piece_count \/ begin > piece_length THEN Commit(W)
       ELSE Commit(send_message(W, p, "Piece"))

\* Request messages: the first block of piece 0, and one byte more than
\* max_message_length.
RequestInputs ==
    {[index |-> 0, begin |-> 0, length |-> BLOCK_LENGTH],
     [index |-> 0, begin |-> 0, length |-> max_message_length + 1]}

\* Pieces::write_block_async up to the start of the write.
write_block_async(w, p, index, begin, size, good) ==
    IF index >= get_piece_count \/ begin > piece_length THEN w
    ELSE [w EXCEPT !.writes = @ (+) SetToBag({[peer |-> p, index |-> index,
                                                begin |-> begin, size |-> size,
                                                good |-> good]})]

RecvPiece(p, index, begin, size, good) ==
    /\ Receiving(p)
    /\ LET w0 == [W EXCEPT !.peer[p].outstanding =
                      @ \ {[index |-> index, begin |-> begin, length |-> size]}]
       IN  IF w0.peer[p].current_piece_index = None THEN Commit(w0)
           ELSE Commit(write_block_async(
                    [w0 EXCEPT !.md.downloaded = @ + size], p, index, begin, size, good))

\* Completion handler of the block write.
WriteDone(wr, error) ==
    /\ Serving
    /\ BagIn(wr, writes)
    /\ error => events < MaxEvents
    /\ events' = IF error THEN events + 1 ELSE events
    /\ LET w0 == [W EXCEPT !.writes = @ (-) SetToBag({wr})]
           offset == wr.index * piece_length + wr.begin
       IN  IF error THEN Commit(on_write_finished(w0, wr.peer, TRUE, FALSE, None))
           ELSE LET w1 == [w0 EXCEPT !.disk = [g \in DOMAIN @ |->
                                IF g \in BlocksIn(offset, wr.size) THEN wr.good ELSE @[g]]]
                IN  IF wr.begin + wr.size >= piece_length
                       \/ offset + wr.size >= total_length
                    THEN Commit([w1 EXCEPT !.checks = @ (+) SetToBag(
                                    {[peer |-> wr.peer, index |-> wr.index]})])
                    ELSE Commit(on_write_finished(w1, wr.peer, FALSE, FALSE, None))
    /\ UNCHANGED <<geo, scan, phase>>

\* Completion handler of check_sha1_piece_async's read of piece_length bytes.
CheckDone(c, error) ==
    /\ Serving
    /\ BagIn(c, checks)
    /\ error => events < MaxEvents
    /\ events' = IF error THEN events + 1 ELSE events
    /\ LET w0 == [W EXCEPT !.checks = @ (-) SetToBag({c})]
       IN  IF error THEN Commit(on_write_finished(w0, c.peer, TRUE, FALSE, None))
           ELSE Commit(on_write_finished(w0, c.peer, FALSE,
                        check_sha1_piece_async(w0.disk, c.index), c.index))
    /\ UNCHANGED <<geo, scan, phase>>

\* The 10 second timer assign_piece arms when no piece could be assigned.
on_timer(w, p) ==
    LET w0 == [w EXCEPT !.peer[p].timer = FALSE]
    IN  IF w0.peer[p].state = "Idle" /\ w0.peer[p].current_piece_index = None
        THEN Peer_assign_piece(w0, p)
        ELSE w0

TimerFire(p) ==
    /\ Serving
    /\ peer[p].timer
    /\ Commit(on_timer(W, p))
    /\ UNCHANGED <<geo, scan, phase, events>>

(***************************************************************************)
(* Inputs of the remote peers.                                             *)
(***************************************************************************)
\* The bitfield of BitfieldSize bytes with exactly the bits of S set.
BitsOf(S) ==
    [k \in 1..BitfieldSize |->
        FromBits([b \in 0..7 |-> IF (k - 1) * 8 + (7 - b) \in S THEN 1 ELSE 0], 7)]

\* Bitfield payloads: every piece, every piece with one spare trailing bit
\* set, and every piece followed by one byte more than our bitfield has.
BitfieldPayloads ==
    {BitsOf(0..get_piece_count - 1), BitsOf(0..get_piece_count),
     BitsOf(0..get_piece_count - 1) \o <<0>>}

\* Have messages: the index of any piece.
HaveInputs == 0..get_piece_count - 1

\* Piece messages: any block of any piece with the torrent's bytes, and the
\* last block of any piece with other bytes.
PieceInputs ==
    {m \in [index : 0..get_piece_count - 1,
            begin : {BLOCK_LENGTH * b : b \in 0..get_block_count - 1},
            good : BOOLEAN] :
        /\ m.begin + BLOCK_LENGTH <= TruePieceLength(m.index)
        /\ ~m.good => m.begin + BLOCK_LENGTH = TruePieceLength(m.index)}

Next ==
    \/ \E t \in Threads : ScanCheck(t)
    \/ \E t \in Threads : ScanLoad(t)
    \/ \E t \in Threads : ScanStore(t)
    \/ ScanJoin
    \/ \E p \in Peers : Add(p, p)
    \/ \E p \in Peers, error \in BOOLEAN : ConnectDone(p, error)
    \/ \E p \in Peers, error \in BOOLEAN, buffer \in HandshakeReplies :
            HandshakeDone(p, error, buffer)
    \/ \E p \in Peers : Spend /\ RecvError(p)
    \/ \E p \in Peers : Spend /\ RecvUnchoke(p)
    \/ \E p \in Peers : Spend /\ RecvChoke(p)
    \/ \E p \in Peers, payload \in BitfieldPayloads : Spend /\ RecvBitfield(p, payload)
    \/ \E p \in Peers, index \in HaveInputs, crash \in BOOLEAN :
            Spend /\ RecvHave(p, index, crash)
    \/ \E p \in Peers, m \in RequestInputs :
            Spend /\ RecvRequest(p, m.index, m.begin, m.length)
    \/ \E p \in Peers, m \in PieceInputs :
            Spend /\ RecvPiece(p, m.index, m.begin, BLOCK_LENGTH, m.good)
    \/ \E wr \in BagToSet(writes), error \in BOOLEAN : WriteDone(wr, error)
    \/ \E c \in BagToSet(checks), error \in BOOLEAN : CheckDone(c, error)
    \/ \E p \in Peers : TimerFire(p)

Spec == Init /\ [][Next]_vars

(***************************************************************************)
(* The Bitfield class on its own: one thread makes up to MaxCalls calls on *)
(* a bitfield of UnitBytes bytes that holds the final on_piece_complete    *)
(* handler, with any arguments.  hist.last records the latest call.        *)
(***************************************************************************)
UnitGeo == [piece_length |-> BLOCK_LENGTH,
            total_length |-> BLOCK_LENGTH * 8 * UnitBytes]

UnitIndexes == {0, 1, 7, 8, 8 * UnitBytes - 1, 8 * UnitBytes}

\* Peer bitfields: first byte and remaining bytes from a few patterns, and
\* one bitfield of another size.
UnitPeerVecs ==
    {[k \in 1..UnitBytes |-> IF k = 1 THEN a ELSE b] : a \in {0, 65, 192, 255}, b \in {0, 129}}
        \cup {<<192>>}

InitBitfield ==
    /\ geo = UnitGeo
    /\ ready = TRUE
    /\ InitCommon
    /\ disk = [b \in BlocksOf(geo) |-> FALSE]
    /\ callback = "final"
    /\ scan = IdleScan
    /\ phase = "unit"

Calling ==
    /\ phase = "unit"
    /\ hist.calls < MaxCalls
    /\ UNCHANGED <<geo, scan, phase, events>>

Fired(w, i) == i \in DOMAIN hist.notified /\ w.hist.notified[i] > hist.notified[i]

Record(w, op, arg, other, ret) ==
    [w EXCEPT !.hist.last = [op |-> op, arg |-> arg, self |-> vec, other |-> other,
                             ret |-> ret, after |-> w.vec, fired |-> Fired(w, arg),
                             fresh |-> ret \notin hist.returned],
              !.hist.calls = @ + 1,
              !.hist.set_fired = IF op = "set_piece" /\ Fired(w, arg)
                                 THEN [@ EXCEPT ![arg] = @ + 1] ELSE @,
              !.hist.returned = IF op = "piece_failed" /\ arg # None THEN {}
                                ELSE IF ret >= 0 THEN @ \cup {ret} ELSE @]

CallAssignPiece(pv) ==
    /\ Calling
    /\ LET r == Bitfield_assign_piece(vec, pv)
       IN  Commit(Record([W EXCEPT !.vec = r.vec], "assign_piece", None, pv, r.ret))

CallSetPiece(i) ==
    /\ Calling
    /\ Commit(Record(set_piece(W, i), "set_piece", i, <<>>, None))

CallPieceSuccess(i) ==
    /\ Calling
    /\ Commit(Record(piece_success(W, i), "piece_success", i, <<>>, None))

CallPieceFailed(i) ==
    /\ Calling
    /\ Commit(Record(piece_failed(W, i), "piece_failed", i, <<>>, None))

NextBitfield ==
    \/ \E pv \in UnitPeerVecs : CallAssignPiece(pv)
    \/ \E i \in UnitIndexes : CallSetPiece(i)
    \/ \E i \in UnitIndexes \cup {None} : CallPieceSuccess(i)
    \/ \E i \in (UnitIndexes \cup {None}) \ {8 * UnitBytes} : CallPieceFailed(i)

SpecBitfield == InitBitfield /\ [][NextBitfield]_vars

(***************************************************************************)
(* The download with well-behaved peers, for the termination claim: the    *)
(* working file is new, every peer holds every piece, sends its Bitfield   *)
(* and then Unchoke, answers every Request with the torrent's bytes, never *)
(* chokes and never disconnects, and no connect, handshake or file         *)
(* operation fails.  A peer answers the Requests of a session in the order *)
(* they were sent, each once the file operations of the previous answer    *)
(* have completed (inline in the fallback build of AsyncFile).  The        *)
(* io_context runs every handler that is ready.                            *)
(***************************************************************************)
InitLive ==
    /\ geo \in Geometries
    /\ ready = TRUE
    /\ InitCommon
    /\ disk = [b \in BlocksOf(geo) |-> FALSE]
    /\ callback = "final"
    /\ scan = IdleScan
    /\ phase = "download"

Free == UNCHANGED events

LiveBitfield(p) ==
    /\ peer[p].state = "Handshook"
    /\ peer[p].peer_bitfield = <<>>
    /\ Free
    /\ RecvBitfield(p, BitsOf(0..get_piece_count - 1))

LiveUnchoke(p) ==
    /\ peer[p].peer_bitfield # <<>>
    /\ peer[p].peer_choking
    /\ Free
    /\ RecvUnchoke(p)

AnswerRequest(p) ==
    /\ writes = EmptyBag
    /\ checks = EmptyBag
    /\ Free
    /\ \E r \in peer[p].outstanding :
            /\ \A q \in peer[p].outstanding : r.begin <= q.begin
            /\ RecvPiece(p, r.index, r.begin, r.length, TRUE)

LiveWriteDone == \E wr \in BagToSet(writes) : WriteDone(wr, FALSE)

LiveCheckDone == \E c \in BagToSet(checks) : CheckDone(c, FALSE)

NextLive ==
    \/ \E p \in Peers : Add(p, p)
    \/ \E p \in Peers : ConnectDone(p, FALSE)
    \/ \E p \in Peers : HandshakeDone(p, FALSE, GenuineReply)
    \/ \E p \in Peers : LiveBitfield(p)
    \/ \E p \in Peers : LiveUnchoke(p)
    \/ \E p \in Peers : AnswerRequest(p)
    \/ LiveWriteDone
    \/ LiveCheckDone
    \/ \E p \in Peers : TimerFire(p)

FairLive ==
    /\ \A p \in Peers : WF_vars(Add(p, p))
    /\ \A p \in Peers : WF_vars(ConnectDone(p, FALSE))
    /\ \A p \in Peers : WF_vars(HandshakeDone(p, FALSE, GenuineReply))
    /\ \A p \in Peers : WF_vars(LiveBitfield(p))
    /\ \A p \in Peers : WF_vars(LiveUnchoke(p))
    /\ \A p \in Peers : WF_vars(AnswerRequest(p))
    /\ WF_vars(LiveWriteDone)
    /\ WF_vars(LiveCheckDone)
    /\ \A p \in Peers : WF_vars(TimerFire(p))

SpecLive == InitLive /\ [][NextLive]_vars /\ FairLive

(***************************************************************************)
(* Client::wait and Client::stop, the tracker manager and the peer manager.*)
(* The torrent has one piece; its verification ends the download.         *)
(***************************************************************************)
ClientGeo == [piece_length |-> BLOCK_LENGTH, total_length |-> BLOCK_LENGTH]

\* After Client::start: ready is TRUE for a .torrent file (Metadata::create
\* ran load_info) and FALSE for a magnet link.
InitClient ==
    /\ geo = ClientGeo
    /\ ready \in BOOLEAN
    /\ InitCommon
    /\ disk = [b \in BlocksOf(geo) |-> FALSE]
    /\ callback = "final"
    /\ scan = IdleScan
    /\ phase = "download"

\* Client::wait is entered: Metadata::wait takes ready_cv_mutex.
WaitCall(t) ==
    /\ waiter[t] = "idle"
    /\ Commit([W EXCEPT !.waiter[t] = "metadata_test"])
    /\ UNCHANGED <<geo, scan, phase, events>>

\* ready_cv.wait(lock, pred): the predicate is tested; the thread blocks when
\* it is false and goes on to Pieces::wait when it is true.
MetadataTest(t) ==
    /\ waiter[t] = "metadata_test"
    /\ Commit([W EXCEPT !.waiter[t] = IF ready THEN "pieces_test" ELSE "metadata_blocked"])
    /\ UNCHANGED <<geo, scan, phase, events>>

\* running_cv.wait(lock, pred) of Pieces::wait; Client::wait returns after it.
PiecesTest(t) ==
    /\ waiter[t] = "pieces_test"
    /\ Commit([W EXCEPT !.waiter[t] = IF ~running THEN "returned" ELSE "pieces_blocked"])
    /\ UNCHANGED <<geo, scan, phase, events>>

\* A condition variable may wake a blocked thread without a notification.
SpuriousWake(t) ==
    /\ waiter[t] \in {"metadata_blocked", "pieces_blocked"}
    /\ Commit([W EXCEPT !.waiter[t] = IF @ = "metadata_blocked"
                                      THEN "metadata_test" ELSE "pieces_test"])
    /\ UNCHANGED <<geo, scan, phase, events>>

\* Metadata::load_info, called once the info dictionary of a magnet link has
\* been obtained; the on_ready callback initialises the (new) working file.
load_info(w) == [w EXCEPT !.md.info = TRUE, !.ready = TRUE]

LoadInfo ==
    /\ ~ready
    /\ Commit(load_info(W))
    /\ UNCHANGED <<geo, scan, phase, events>>

\* The only piece passes its SHA-1 check.
LastPiece ==
    /\ Serving
    /\ ready
    /\ md.pieces_done = 0
    /\ Commit(piece_success(W, 0))
    /\ UNCHANGED <<geo, scan, phase, events>>

ClientStop ==
    /\ Commit(Client_stop(W))
    /\ UNCHANGED <<geo, scan, phase, events>>

\* UdpTracker::Packet.
PROTOCOL_ID == <<0, 0, 4, 23, 39, 16, 25, 128>>
listen_port == write(8000, 2)

create_connect_request(transaction_id) ==
    [action |-> Connect, transaction_id |-> transaction_id,
     bytes |-> PROTOCOL_ID \o write(Connect, 4) \o write(transaction_id, 4)]

create_announce_request_protocol_id(w, transaction_id, connection_id) ==
    [action |-> Announce, transaction_id |-> transaction_id,
     bytes |-> PROTOCOL_ID \o write(Announce, 4) \o write(transaction_id, 4)
               \o info_hash \o peer_id
               \o write(w.md.downloaded, 8) \o write(w.md.left, 8) \o write(0, 8)
               \o write(0, 4) \o write(0, 4) \o write(0, 4)
               \o <<255, 255, 255, 255>> \o listen_port]

create_announce_request(w, transaction_id, connection_id) ==
    [action |-> Announce, transaction_id |-> transaction_id,
     bytes |-> connection_id \o write(Announce, 4) \o write(transaction_id, 4)
               \o info_hash \o peer_id
               \o write(w.md.downloaded, 8) \o write(w.md.left, 8) \o write(0, 8)
               \o write(0, 4) \o write(0, 4) \o write(0, 4)
               \o <<255, 255, 255, 255>> \o listen_port]

min_length(action) ==
    CASE action = Connect -> 16
      [] action = Announce -> 20
      [] action = Scrape -> 8
      [] action = Error -> 4
      [] OTHER -> None

create_response_unchecked(request, bytes, stray) ==
    IF Len(bytes) < 4 THEN {}
    ELSE LET action == big_to_native(read(bytes, 0, 4))
         IN  IF min_length(action) = None THEN {}
             ELSE IF Len(bytes) < min_length(action) THEN {}
             ELSE {[action |-> action, transaction_id |-> request.transaction_id,
                    bytes |-> bytes]}

\* Packet::create_response: the optional is a set of at most one packet.  The
\* transaction id is
\* read at offset 4 whatever the size; for a packet of 4 to 7 bytes that read
\* runs past the end of the bytes and yields stray.
create_response(request, bytes, stray) ==
    IF Len(bytes) < 4 THEN {}
    ELSE LET action == big_to_native(read(bytes, 0, 4))
             transaction_id == IF Len(bytes) >= 8 THEN big_to_native(read(bytes, 4, 4))
                               ELSE stray
         IN  IF min_length(action) = None THEN {}
             ELSE IF Len(bytes) < min_length(action) THEN {}
             ELSE IF transaction_id # request.transaction_id THEN {}
             ELSE {[action |-> action, transaction_id |-> transaction_id, bytes |-> bytes]}

\* TrackerManager::add: create_tracker makes the object and starts its
\* connection, then emplace stores it unless the key is present.
\* TrackerManager::add up to the return of initiate_connection: the mutex is
\* taken, the object made and its resolve started.
TrackerManager_add_begin(w, k, announce) ==
    [w EXCEPT !.tracker[k].conn = "connecting", !.tracker[k].adding = announce]

\* The rest of TrackerManager::add: create_tracker assigns announce, emplace
\* stores the object unless the key is present, the mutex is released.
TrackerManager_add_end(w, k) ==
    LET announce == w.tracker[k].adding
    IN  [w EXCEPT !.tracker[k].announce = announce,
                  !.tracker[k].adding = None,
                  !.trackers[announce] = IF @ = None THEN k ELSE @]

TrackerManager_add(w, k, announce) ==
    TrackerManager_add_end(TrackerManager_add_begin(w, k, announce), k)

\* The manager's mutex is held by an add call.
TrackerManager_locked(w) == \E k \in Trackers : w.tracker[k].adding # None

\* TrackerManager::remove once it holds the mutex; None is the empty string.
TrackerManager_remove(w, announce) ==
    IF announce \in DOMAIN w.trackers
    THEN [w EXCEPT !.trackers[announce] = None]
    ELSE w

\* Tracker::on_disconnect: remove is called with a copy of announce and waits
\* while an add call holds the mutex.
on_disconnect(w, k) ==
    IF TrackerManager_locked(w)
    THEN [w EXCEPT !.tracker[k].removing =
                      IF w.tracker[k].adding # None THEN "racy" ELSE "clean"]
    ELSE TrackerManager_remove(w, w.tracker[k].announce)

\* Tracker objects are created in the order of their numbers.
AddTracker(k, announce) ==
    /\ tracker[k].conn = "none"
    /\ \A j \in Trackers : j < k => tracker[j].conn # "none"
    /\ ~TrackerManager_locked(W)
    /\ Commit(TrackerManager_add(W, k, announce))
    /\ UNCHANGED <<geo, scan, phase, events>>

\* The two halves of an add call that runs while the workers run handlers.
AddBegin(k, announce) ==
    /\ tracker[k].conn = "none"
    /\ \A j \in Trackers : j < k => tracker[j].conn # "none"
    /\ ~TrackerManager_locked(W)
    /\ Commit(TrackerManager_add_begin(W, k, announce))
    /\ UNCHANGED <<geo, scan, phase, events>>

AddEnd(k) ==
    /\ tracker[k].adding # None
    /\ Commit(TrackerManager_add_end(W, k))
    /\ UNCHANGED <<geo, scan, phase, events>>

\* A remove that waited for the mutex runs.  announce is the copy it was
\* called with: the member as it is now, or, when on_disconnect read it while
\* create_tracker had not assigned it yet, possibly the empty string.
RemoveBlocked(k, announce) ==
    /\ tracker[k].removing # "no"
    /\ ~TrackerManager_locked(W)
    /\ announce = tracker[k].announce \/ (tracker[k].removing = "racy" /\ announce = None)
    /\ Commit(TrackerManager_remove([W EXCEPT !.tracker[k].removing = "no"], announce))
    /\ UNCHANGED <<geo, scan, phase, events>>

\* UdpTracker::send_request: the packet is handed to async_send.
send_request(w, k, packet) ==
    [w EXCEPT !.tracker[k].requests = Append(@, [packet |-> packet, stage |-> "sending"])]

\* UdpTracker::change_state; transaction_id is the number drawn by
\* generate_transaction_id for the request the new state sends, if any.
Tracker_change_state(w, k, new_state, transaction_id) ==
    LET w0 == [w EXCEPT !.tracker[k].state = new_state]
    IN  CASE new_state = "Disconnected" -> on_disconnect(w0, k)
          [] new_state = "Connected" ->
                send_request(w0, k, create_connect_request(transaction_id))
          [] new_state = "HasConnectionId" ->
                IF w0.tracker[k].interval_timer THEN w0
                ELSE send_request(w0, k,
                        create_announce_request(w0, transaction_id,
                                                w0.tracker[k].connection_id))

\* Completion of the resolve and connect started by initiate_connection.
InitiateDone(k, error, transaction_id) ==
    /\ tracker[k].conn = "connecting"
    /\ IF error
       THEN Commit(Tracker_change_state([W EXCEPT !.tracker[k].conn = "closed"],
                                        k, "Disconnected", transaction_id))
       ELSE Commit(Tracker_change_state([W EXCEPT !.tracker[k].conn = "open"],
                                        k, "Connected", transaction_id))
    /\ UNCHANGED <<geo, scan, phase, events>>

Oldest(requests, stage) ==
    LET at == {i \in 1..Len(requests) : requests[i].stage = stage}
    IN  IF at = {} THEN 0 ELSE CHOOSE i \in at : \A j \in at : i <= j

Without(requests, i) ==
    [j \in 1..(Len(requests) - 1) |-> IF j < i THEN requests[j] ELSE requests[j + 1]]

\* Completion handler of async_send in send_request.
SendDone(k, error) ==
    /\ Oldest(tracker[k].requests, "sending") # 0
    /\ LET i == Oldest(tracker[k].requests, "sending")
       IN  IF error
           THEN Commit(Tracker_change_state(
                    [W EXCEPT !.tracker[k].requests = Without(@, i)], k, "Disconnected", 0))
           ELSE Commit([W EXCEPT !.tracker[k].requests[i].stage = "receiving"])
    /\ UNCHANGED <<geo, scan, phase, events>>

\* on_response of the Connect request.
on_connect_response(w, k, response, transaction_id) ==
    LET w1 == [w EXCEPT !.tracker[k].connection_id = read(response.bytes, 8, 8)]
        w2 == Tracker_change_state(w1, k, "HasConnectionId", transaction_id)
    IN  [w2 EXCEPT !.tracker[k].connection_id_timer = TRUE]

RECURSIVE announce_loop(_, _, _, _)
announce_loop(w, k, response, offset) ==
    IF offset < Len(response.bytes) - 6
    THEN announce_loop(
            [w EXCEPT !.tracker[k].new_peers =
                Append(@, [ip |-> read(response.bytes, offset, 4),
                           port |-> read(response.bytes, offset + 4, 2)])],
            k, response, offset + 1)
    ELSE w

\* on_response of the Announce request.
on_announce_response(w, k, response) ==
    [announce_loop(w, k, response, 20) EXCEPT !.tracker[k].interval_timer = TRUE]

\* The tracker's first Connect request is the only request and awaits its
\* response; nothing was received before.
FirstConnect(k) ==
    /\ Len(tracker[k].requests) = 1
    /\ tracker[k].requests[1].stage = "receiving"
    /\ tracker[k].requests[1].packet.action = Connect
    /\ tracker[k].log = "none"
    /\ ~tracker[k].connection_id_timer /\ ~tracker[k].interval_timer

\* A datagram the claim calls invalid for the request it answers.
Invalid(request, bytes) ==
    \/ Len(bytes) >= 8 /\ big_to_native(read(bytes, 4, 4)) # request.transaction_id
    \/ /\ Len(bytes) >= 4
       /\ big_to_native(read(bytes, 0, 4)) \in {Connect, Announce, Scrape, Error}
       /\ Len(bytes) < min_length(big_to_native(read(bytes, 0, 4)))

\* An Announce response of 20 + 6 * n bytes that answers an Announce request.
AnnounceResponse(request, bytes) ==
    /\ request.action = Announce
    /\ Len(bytes) >= 20
    /\ (Len(bytes) - 20) % 6 = 0
    /\ big_to_native(read(bytes, 0, 4)) = Announce
    /\ big_to_native(read(bytes, 4, 4)) = request.transaction_id

Classify(k, request, bytes) ==
    [first |-> /\ FirstConnect(k)
               /\ Len(bytes) >= 16
               /\ big_to_native(read(bytes, 0, 4)) = 0
               /\ big_to_native(read(bytes, 4, 4)) = request.transaction_id,
     invalid |-> Invalid(request, bytes),
     connection_id |-> IF Len(bytes) >= 16 THEN read(bytes, 8, 8) ELSE be64(0),
     announce |-> AnnounceResponse(request, bytes),
     endpoints |-> IF AnnounceResponse(request, bytes)
                   THEN [j \in 1..((Len(bytes) - 20) \div 6) |->
                            [ip |-> read(bytes, 20 + 6 * (j - 1), 4),
                             port |-> read(bytes, 20 + 6 * (j - 1) + 4, 2)]]
                   ELSE <<>>]

\* Completion handler of async_receive in send_request: bytes is the datagram,
\* stray what a read past the end of a short packet yields.
RecvDone(k, error, bytes, stray, transaction_id) ==
    /\ Oldest(tracker[k].requests, "receiving") # 0
    /\ LET i == Oldest(tracker[k].requests, "receiving")
           request == tracker[k].requests[i].packet
           w0 == [W EXCEPT !.tracker[k].requests = Without(@, i),
                           !.hist.datagram = IF error THEN NoDatagram
                                             ELSE Classify(k, request, bytes)]
           response == create_response(request, bytes, stray)
           packet == CHOOSE r \in response : TRUE
           Log(w, line) == [w EXCEPT !.tracker[k].log = line]
       IN  IF error
           THEN Commit(Tracker_change_state(w0, k, "Disconnected", 0))
           ELSE IF response = {} THEN Commit(Log(w0, "invalid"))
           ELSE IF packet.action = Error THEN Commit(Log(w0, "error"))
           ELSE IF packet.action # request.action THEN Commit(Log(w0, "incorrect"))
           ELSE IF request.action = Connect
           THEN Commit(on_connect_response(Log(w0, "valid"), k, packet, transaction_id))
           ELSE Commit(on_announce_response(Log(w0, "valid"), k, packet))
    /\ UNCHANGED <<geo, scan, phase>>

\* Handler of connection_id_timer, one minute after a connection id arrived.
ConnectionIdTimerFire(k, transaction_id) ==
    /\ tracker[k].connection_id_timer
    /\ Commit(Tracker_change_state([W EXCEPT !.tracker[k].connection_id_timer = FALSE],
                                   k, "Connected", transaction_id))
    /\ UNCHANGED <<geo, scan, phase>>

\* Handler of interval_timer.
IntervalTimerFire(k, transaction_id) ==
    /\ tracker[k].interval_timer
    /\ LET w0 == [W EXCEPT !.tracker[k].interval_timer = FALSE]
       IN  IF tracker[k].state = "HasConnectionId"
           THEN Commit(Tracker_change_state(w0, k, "HasConnectionId", transaction_id))
           ELSE Commit(w0)
    /\ UNCHANGED <<geo, scan, phase>>

NextClient ==
    \/ \E t \in Waiters : WaitCall(t)
    \/ \E t \in Waiters : MetadataTest(t)
    \/ \E t \in Waiters : PiecesTest(t)
    \/ \E t \in Waiters : SpuriousWake(t)
    \/ LoadInfo
    \/ LastPiece
    \/ ClientStop
    \/ \E k \in Trackers, announce \in Urls : AddTracker(k, announce)
    \/ \E k \in Trackers, error \in BOOLEAN : InitiateDone(k, error, 0)
    \/ \E k \in Trackers, error \in BOOLEAN : SendDone(k, error)
    \/ \E p \in Peers, endpoint \in Endpoints : Add(p, endpoint)
    \/ \E p \in Peers, error \in BOOLEAN : ConnectDone(p, error)
    \/ \E p \in Peers, error \in BOOLEAN : HandshakeDone(p, error, GenuineReply)
    \/ \E p \in Peers : Free /\ RecvError(p)

\* A thread that can test its predicate is scheduled; a spurious wake-up is
\* never owed.
FairClient ==
    \A t \in Waiters : WF_vars(MetadataTest(t)) /\ WF_vars(PiecesTest(t))

SpecClient == InitClient /\ [][NextClient]_vars /\ FairClient

(***************************************************************************)
(* One UDP tracker and the datagrams it receives.                          *)
(***************************************************************************)
TransactionIds == {7, 66051}
ConnectionIds == {<<0, 0, 0, 0, 222, 173, 190, 239>>}

\* Bodies after the 8-byte header: a connection id, or interval, leechers,
\* seeders and two compact peers.
Bodies ==
    ConnectionIds
    \cup {write(1800, 4) \o write(1, 4) \o write(2, 4)
          \o <<10, 0, 0, 1>> \o write(6881, 2) \o <<10, 0, 0, 2>> \o write(6882, 2)}

Sizes == {0, 3, 4, 7, 8, 15, 16, 19, 20, 26, 32}

Responses ==
    UNION {{SubSeq(d, 1, n) : n \in {m \in Sizes : m <= Len(d)}} :
              d \in {write(action, 4) \o write(id, 4) \o body :
                        action \in 0..4, id \in TransactionIds, body \in Bodies}}

InitUdp ==
    /\ geo = ClientGeo
    /\ ready = TRUE
    /\ InitCommon
    /\ disk = [b \in BlocksOf(geo) |-> FALSE]
    /\ callback = "final"
    /\ scan = IdleScan
    /\ phase = "download"

NextUdp ==
    \/ \E announce \in Urls : AddBegin(1, announce)
    \/ \E k \in Trackers : AddEnd(k)
    \/ \E k \in Trackers, announce \in Urls \cup {None} : RemoveBlocked(k, announce)
    \/ \E k \in Trackers, error \in BOOLEAN, id \in TransactionIds :
            InitiateDone(k, error, id)
    \/ \E k \in Trackers, error \in BOOLEAN : SendDone(k, error)
    \/ \E k \in Trackers, error \in BOOLEAN, bytes \in Responses,
          stray \in TransactionIds, id \in TransactionIds :
            Spend /\ RecvDone(k, error, bytes, stray, id)
    \/ \E k \in Trackers, id \in TransactionIds :
            Spend /\ ConnectionIdTimerFire(k, id)
    \/ \E k \in Trackers, id \in TransactionIds :
            Spend /\ IntervalTimerFire(k, id)

SpecUdp == InitUdp /\ [][NextUdp]_vars

(***************************************************************************)
(* Properties.                                                             *)
(***************************************************************************)
Index(p) == peer[p].current_piece_index

BitIndexes == 0..(8 * Len(vec) - 1)

\* The step moves session p to Disconnected while it holds piece i.
Disconnects(p, i) ==
    /\ peer[p].state # "Disconnected"
    /\ peer'[p].state = "Disconnected"
    /\ Index(p) = i
    /\ i # None

\* C1: no piece index is the current_piece_index of two peer sessions at
\* the same time.
C1_NoPieceAssignedTwice ==
    \A p, q \in Peers : p # q /\ Index(p) # None => Index(p) # Index(q)

\* Two sessions hold an assigned piece each and are downloading it.
C1_Witness ==
    \E p, q \in Peers :
        /\ p # q
        /\ Index(p) # None /\ Index(q) # None
        /\ peer[p].state = "DownloadingPiece" /\ peer[q].state = "DownloadingPiece"

\* C2: piece_success(i) is called only when the SHA-1 check that passed was
\* computed over piece i, the session's current_piece_index.
C2_SuccessForHashedPiece ==
    \A s \in hist.successes : s.counted = s.hashed

\* C3: piece_failed(i) on a bitfield whose bit i is set leaves bit i clear.
C3_PieceFailedClearsBit ==
    hist.last.op = "piece_failed" /\ hist.last.arg # None
        /\ has_piece(hist.last.self, hist.last.arg)
    => ~has_piece(hist.last.after, hist.last.arg)

\* C4: when a session goes to Disconnected while it holds an assigned piece
\* that has not been counted complete, the piece's bit is clear afterwards.
C4_DisconnectReleasesPiece ==
    [][\A p \in Peers, i \in BitIndexes :
          Disconnects(p, i) /\ hist.notified[i] = 0 => ~has_piece(vec', i)]_vars

\* C5: no bit is set for a piece that no session is downloading and that
\* was never counted complete.
C5_SetBitDownloadingOrCounted ==
    \A i \in BitIndexes :
        has_piece(vec, i) =>
            \/ hist.notified[i] > 0
            \/ \E p \in Peers : Index(p) = i /\ peer[p].state # "Disconnected"

\* C6: with well-behaved peers and fair scheduling the download eventually
\* completes, for every geometry: is_file_complete() becomes true and
\* Pieces::wait() returns.
\* Termination is stated on finite runs: a state in which no handler is
\* left to run and no peer has a Request left to answer (Quiescent is a cheap
\* necessary condition, ENABLED the exact one) is a state the fair run stays
\* in for ever, so the download must be complete there.
Quiescent ==
    /\ writes = EmptyBag
    /\ checks = EmptyBag
    /\ \A p \in Peers : /\ peer[p].endpoint \in Endpoints
                        /\ peers[peer[p].endpoint] = p
                        /\ peer[p].conn = "open"
                        /\ peer[p].peer_bitfield # <<>>
                        /\ ~peer[p].peer_choking
                        /\ peer[p].outstanding = {}

C6_DownloadCompletes ==
    \/ is_file_complete(W) /\ ~running
    \/ ~Quiescent
    \/ ENABLED <<NextLive>>_vars

\* C7: pieces_done <= piece_count.
C7_PiecesDoneBounded == md.pieces_done <= get_piece_count

\* The least index the peer bitfield has and self lacks.
Missing(self, other) ==
    {i \in 0..(8 * Len(self) - 1) : has_piece(other, i) /\ ~has_piece(self, i)}

LeastOf(S) == CHOOSE i \in S : \A k \in S : i <= k

C9_ScanSerializable ==
    (\A t \in Threads : scan[t].pc = "done") =>
        \A i \in BitIndexes : hist.notified[i] > 0 => has_piece(vec, i)

\* C10: set_piece(i) on a set bit changes nothing and fires no
\* on_piece_complete, and over the calls made so far set_piece has fired
\* on_piece_complete(i) at most once for every index i.
C10_SetPieceIdempotent ==
    /\ hist.last.op = "set_piece" /\ has_piece(hist.last.self, hist.last.arg)
        => hist.last.after = hist.last.self /\ ~hist.last.fired
    /\ \A i \in DOMAIN hist.set_fired : hist.set_fired[i] <= 1

\* set_piece(i) was called on a bitfield that had bit i set by an earlier
\* set_piece(i), which fired on_piece_complete(i).
C10_Witness ==
    /\ hist.last.op = "set_piece"
    /\ has_piece(hist.last.self, hist.last.arg)
    /\ hist.set_fired[hist.last.arg] = 1

\* C11: the read of a piece's SHA-1 verification completes only when no block
\* write of the same session for the same piece is still in flight.
C11_VerifyAfterWrites ==
    [][\A c \in BagToSet(checks) :
          CopiesIn(c, checks') < CopiesIn(c, checks) =>
              ~\E wr \in BagToSet(writes) : wr.peer = c.peer /\ wr.index = c.index]_vars

\* The step completes, without an I/O error, the verification c of the piece
\* its session holds, and the SHA-1 check fails.
CheckFails(c) ==
    /\ CopiesIn(c, checks') < CopiesIn(c, checks)
    /\ events' = events
    /\ Index(c.peer) = c.index
    /\ ~check_sha1_piece(disk, c.index, piece_length)

\* Session p has no file operation in flight.
NoFileOps(p) ==
    /\ \A wr \in BagToSet(writes) : wr.peer # p
    /\ \A c \in BagToSet(checks) : c.peer # p

\* C12: after a failed SHA-1 check the session has left the piece (Idle, or
\* another assignment) or has requests for it outstanding or file operations
\* in flight: it does not stay in DownloadingPiece on the piece with nothing
\* outstanding.
C12_FailedCheckRetries ==
    [][\A c \in BagToSet(checks) :
          CheckFails(c) =>
              \/ peer'[c.peer].state # "DownloadingPiece"
              \/ peer'[c.peer].current_piece_index # c.index
              \/ peer'[c.peer].outstanding # {}
              \/ ~NoFileOps(c.peer)']_vars

\* The working file's bytes of piece i hash to piece_hashes[i].
PieceValid(i) == check_sha1_piece(disk, i, TruePieceLength(i))

ScanFinished == phase = "scan" /\ \A t \in Threads : scan[t].pc = "done"

\* C13: when the resume scan's workers have finished, bit i is set exactly
\* when piece i of the file is valid, pieces_done is the number of set bits,
\* and a fully valid file makes is_file_complete() true.
C13_ResumeScanExact ==
    ScanFinished =>
        /\ \A i \in 0..(get_piece_count - 1) : has_piece(vec, i) <=> PieceValid(i)
        /\ md.pieces_done = Cardinality({i \in BitIndexes : has_piece(vec, i)})
        /\ (\A i \in 0..(get_piece_count - 1) : PieceValid(i)) => is_file_complete(W)

\* C14: a session whose handshake reply arrived whole but differs from ours in
\* the 20-byte header or in the info_hash is Disconnected, never marked as
\* handshook, has sent neither Bitfield nor Unchoke, and reads nothing further.
C14_MismatchDisconnects ==
    \A p \in hist.rejected :
        /\ peer[p].state = "Disconnected"
        /\ ~peer[p].handshook
        /\ ~peer[p].greeting
        /\ peer[p].conn = "closed"
        /\ peer[p].outstanding = {}

C14_Witness ==
    \E p, q \in Peers :
        /\ p \in hist.rejected
        /\ q \notin hist.rejected
        /\ peer[q].handshook

\* C15: a thread in Client::wait returns only when the metainfo is ready and
\* the piece store's completion flag is set, and once both hold it returns
\* (also when load_info made the metainfo ready while it was blocked).
C15_WaitReturns ==
    \A t \in Waiters :
        /\ [](waiter[t] = "returned" => ready /\ ~running)
        /\ (waiter[t] # "idle" /\ ready /\ ~running) ~> (waiter[t] = "returned")

\* C16: Client::stop stops every subcomponent: the waiters are woken, the
\* tracker manager drops all its trackers and the peer manager all its peers.
C16_StopStopsAll ==
    [][ClientStop =>
          /\ \A t \in Waiters : waiter'[t] \notin {"metadata_blocked", "pieces_blocked"}
          /\ \A a \in Urls : trackers'[a] = None
          /\ \A e \in Endpoints : peers'[e] = None]_vars

\* C17: PeerManager::add for an endpoint that is already a key of the peer map
\* is a no-op: no Peer is created or connected and the map is unchanged.
C17_AddExistingNoOp ==
    [][\A p \in Peers, endpoint \in Endpoints :
          peers[endpoint] # None /\ Add(p, endpoint) =>
              UNCHANGED <<peer, peers, active_peers>>]_vars

\* A step in which tracker k fails: its resolve or connect, or a send or
\* receive of a tracker that was not Disconnected.
TrackerFails(k) ==
    \/ tracker[k].conn = "connecting" /\ tracker'[k].conn = "closed"
    \/ tracker[k].state # "Disconnected" /\ tracker'[k].state = "Disconnected"

\* C18: TrackerManager::add for a URL that already has a session creates and
\* starts no second session, and the failure of a discarded duplicate never
\* removes the original from the map.
C18_AddExistingTracker ==
    [][/\ \A k \in Trackers, announce \in Urls :
            trackers[announce] # None /\ AddTracker(k, announce) =>
                UNCHANGED <<tracker, trackers>>
       /\ \A k \in Trackers :
            TrackerFails(k) /\ trackers[tracker[k].announce] # k
            => trackers' = trackers]_vars

\* A step in which the receive handler of tracker k ran: a request awaiting
\* its response is gone.
Awaiting(requests) == Cardinality({j \in 1..Len(requests) : requests[j].stage = "receiving"})
Receives(k) == Awaiting(tracker'[k].requests) < Awaiting(tracker[k].requests)

CarriesAnnounce(requests, connection_id) ==
    \E j \in 1..Len(requests) :
        /\ requests[j].stage = "sending"
        /\ big_to_native(read(requests[j].packet.bytes, 8, 4)) = Announce
        /\ read(requests[j].packet.bytes, 0, 8) = connection_id

\* C19: a UDP tracker that awaits the response to its first Connect request and
\* receives a datagram of at least 16 bytes with action 0 and the request's
\* transaction id stores the datagram's connection id, moves to
\* HasConnectionId and sends an Announce request carrying that connection id.
C19_ConnectResponse ==
    [][\A k \in Trackers :
          Receives(k) /\ hist'.datagram.first
          => /\ tracker'[k].connection_id = hist'.datagram.connection_id
             /\ tracker'[k].state = "HasConnectionId"
             /\ CarriesAnnounce(tracker'[k].requests, hist'.datagram.connection_id)]_vars

C19_Witness ==
    \E k \in Trackers :
        /\ tracker[k].state = "HasConnectionId"
        /\ tracker[k].log = "valid"
        /\ hist.datagram.first
        /\ tracker[k].connection_id \in ConnectionIds
        /\ tracker[k].connection_id_timer
        /\ CarriesAnnounce(tracker[k].requests, tracker[k].connection_id)

Failed(k) ==
    /\ \/ tracker[k].conn = "closed"
       \/ tracker[k].conn = "open" /\ tracker[k].state = "Disconnected"
    /\ tracker[k].removing = "no"
    /\ tracker[k].adding = None

\* C21: after a resolve, connect, send or receive failure of a UDP tracker the
\* tracker is Disconnected and the manager's map holds no session for its
\* announce URL, however the failure handler interleaves with the add call
\* that created the tracker.
C21_FailedTrackerRemoved ==
    \A k \in Trackers :
        Failed(k) => /\ tracker[k].state = "Disconnected"
                     /\ \A announce \in Urls :
                            trackers[announce] = k => announce # tracker[k].announce


\* C22: is_ready() returns true only after load_info has populated
\* piece_length, the piece hashes and the file list; no other operation,
\* stop() included, makes it return true.
C22_ReadyOnlyByLoadInfo == ready => md.info


\* C23: active_peers equals the number of peers in the peer map that have
\* completed the handshake.
C23_ActivePeersCount ==
    active_peers = Cardinality({endpoint \in Endpoints :
                                   /\ peers[endpoint] # None
                                   /\ peer[peers[endpoint]].handshook})


(***************************************************************************)
(* Request arithmetic: Peer::send_requests for any piece_length and        *)
(* total_length, applied as an error-free download applies it: once by     *)
(* change_state(DownloadingPiece) when the piece is assigned, and again by *)
(* the write handler each time a batch has been received and written and   *)
(* the piece is not at its end.                                            *)
(***************************************************************************)
MaxHalves == 8

RequestLengths == {1} \cup {(BLOCK_LENGTH \div 2) * n : n \in 1..MaxHalves}

RequestGeometries ==
    {g \in [piece_length : RequestLengths, total_length : RequestLengths] :
        PieceCountOf(g) <= MaxPieces}

InitRequests ==
    /\ geo \in RequestGeometries
    /\ ready = TRUE
    /\ InitCommon
    /\ disk = <<>>
    /\ callback = "final"
    /\ scan = IdleScan
    /\ phase = "download"

\* A session that completed the handshake receives a Bitfield message with
\* exactly piece index and then Unchoke: it becomes Idle and is given that
\* piece.
AssignPiece(p, index) ==
    /\ peer[p].conn = "open"
    /\ peer[p].state = "Handshook"
    /\ ~has_piece(vec, index)
    /\ Commit(Peer_assign_piece(
            [W EXCEPT !.peer[p].peer_choking = FALSE,
                      !.peer[p].state = "Idle",
                      !.peer[p].peer_bitfield = BitsOf({index})], p))
    /\ UNCHANGED <<geo, scan, phase, events>>

\* The byte after the last one requested so far, in the piece.
RequestedUpTo(p) ==
    LET requests == hist.requests[p]
    IN  IF requests = <<>> THEN 0
        ELSE requests[Len(requests)].begin + requests[Len(requests)].length

\* The blocks of the batch have arrived and are written; the write handler
\* of the last one goes on to the hash check when the block ends the piece
\* or the file, and calls send_requests when blocks remain.
BatchWritten(p) ==
    /\ peer[p].current_piece_index # None
    /\ Len(hist.requests[p]) > 0
    /\ Len(hist.requests[p]) % request_per_call = 0
    /\ RequestedUpTo(p) < piece_length
    /\ peer[p].current_piece_index * piece_length + RequestedUpTo(p) < total_length
    /\ ULess(peer[p].current_block, get_block_count)
    /\ Commit(send_requests([W EXCEPT !.peer[p].outstanding = {}], p))
    /\ UNCHANGED <<geo, scan, phase, events>>

NextRequests ==
    \/ \E p \in Peers : Add(p, p)
    \/ \E p \in Peers : ConnectDone(p, FALSE)
    \/ \E p \in Peers : HandshakeDone(p, FALSE, GenuineReply)
    \/ \E p \in Peers, index \in 0..get_piece_count - 1 : AssignPiece(p, index)
    \/ \E p \in Peers : BatchWritten(p)
    \/ \E p \in Peers, error \in BOOLEAN :
            \E i \in 1..Len(peer[p].sending) : SendMessageDone(p, i, error)

SpecRequests == InitRequests /\ [][NextRequests]_vars

\* Session p will send no further Request for its piece in an error-free
\* download.
RequestsDone(p) ==
    /\ peer[p].current_piece_index # None
    /\ ~ENABLED BatchWritten(p)

\* C24: the Request messages sent for an assigned piece are consecutive
\* blocks of block_length from begin 0, the last one truncated at the end of
\* the piece, and together they cover the piece's bytes, for every
\* piece_length and total_length.
C24_RequestsCoverPiece ==
    \A p \in Peers :
        peer[p].current_piece_index # None =>
            LET requests == hist.requests[p]
                index == peer[p].current_piece_index
            IN  /\ \A j \in 1..Len(requests) :
                      /\ requests[j].index = index
                      /\ requests[j].begin = (j - 1) * BLOCK_LENGTH
                      /\ requests[j].length > 0
                      /\ requests[j].length <= BLOCK_LENGTH
                      /\ requests[j].begin + requests[j].length <= TruePieceLength(index)
                /\ RequestsDone(p) => RequestedUpTo(p) = TruePieceLength(index)


\* A write or a hash check of session p is in flight.
FileOpsOf(p) ==
    \/ \E wr \in BagToSet(writes) : wr.peer = p
    \/ \E c \in BagToSet(checks) : c.peer = p

\* The completion handler of wr runs with an error: the write leaves the
\* bag on a step that spends an input.
WriteFails(wr) ==
    /\ events' = events + 1
    /\ CopiesIn(wr, writes') < CopiesIn(wr, writes)

\* C25: after a block write reported an error the session has requests
\* outstanding again, or writes of the batch still in flight whose handlers
\* can send them, or has left DownloadingPiece; it is never left in
\* DownloadingPiece with nothing outstanding.
C25_WriteErrorRetries ==
    [][\A wr \in BagToSet(writes) :
          WriteFails(wr) /\ peer[wr.peer].current_piece_index # None
          => \/ peer'[wr.peer].state # "DownloadingPiece"
             \/ peer'[wr.peer].outstanding # {}
             \/ FileOpsOf(wr.peer)']_vars


\* Session p sends Request messages on this step.
RequestsSent(p) ==
    /\ hist'.requests[p] # hist.requests[p]
    /\ hist'.requests[p] # <<>>

\* C26: a session is assigned a piece and sends Request messages only while
\* the metainfo is ready and peer_choking is false, also on the retry of the
\* timer.
C26_RequestsOnlyUnchoked ==
    [][\A p \in Peers :
          RequestsSent(p) => ready' /\ ~peer'[p].peer_choking]_vars


\* C27: the remote bitfield of a session always has the size of our
\* bitfield, whatever Bitfield messages the peer sends, so that assign_piece
\* is never called with bitfields of different sizes.
C27_BitfieldSizesMatch ==
    \A p \in Peers :
        peer[p].peer_bitfield # <<>> => Len(peer[p].peer_bitfield) = Len(vec)


\* C28: a Have(index) received on an open session sets bit index of the
\* remote bitfield and leaves the session running, also before any Bitfield
\* message and before the first Unchoke.
C28_HaveSetsBit ==
    [][\A p \in Peers, index \in HaveInputs, crash \in BOOLEAN :
          Spend /\ RecvHave(p, index, crash)
          => /\ has_piece(peer'[p].peer_bitfield, index)
             /\ peer'[p].conn = "open"
             /\ Serving']_vars


\* C29: a session has at most one socket send outstanding at any time: a
\* message is handed to the socket only after the completion handler of the
\* previous one has run.
C29_OneSendOutstanding == \A p \in Peers : Len(peer[p].sending) <= 1


\* C30: no thread holds more than one of the client's mutexes at a time: in
\* every state, the handler of an expired timer and the handler of a
\* finished hash check hold at most one mutex at once when they run.
C30_OneMutexAtATime ==
    Serving =>
        /\ \A p \in Peers :
              peer[p].timer => Cardinality(on_timer(W, p).most) <= 1
        /\ \A c \in BagToSet(checks) :
              Cardinality(on_write_finished(W, c.peer, FALSE,
                              check_sha1_piece(disk, c.index, piece_length),
                              c.index).most) <= 1


\* C31: a UDP Announce response of 20 + 6 * n bytes hands exactly n endpoints
\* to on_new_peer, the j-th with bytes 20 + 6j .. 20 + 6j + 3 as address and
\* bytes 20 + 6j + 4 .. 20 + 6j + 5 as port.
C31_AnnouncePeers ==
    [][\A k \in Trackers :
          Receives(k) /\ hist'.datagram.announce
          => tracker'[k].new_peers = tracker[k].new_peers \o hist'.datagram.endpoints]_vars


(***************************************************************************)
(* The compact peer list of an HTTP tracker response.                      *)
(***************************************************************************)
MaxList == 2

\* A char of the peer string, as the integer it converts to: negative from
\* 128 on where char is signed.
char(byte, char_signed) == IF char_signed /\ byte >= 128 THEN byte - 256 ELSE byte

\* static_cast<std::uint16_t>.
uint16(x) == (x + 65536) % 65536

\* boost::endian::big_to_native of a uint16_t.
big_to_native16(x, little_endian) ==
    IF little_endian THEN (x % 256) * 256 + (x \div 256) ELSE x

\* The port listen_packet computes from the bytes at i + 4 and i + 5.
decode_port(b4, b5, char_signed, little_endian) ==
    LET high == uint16(uint16(char(b5, char_signed)) * 256)
        low == uint16(char(b4, char_signed))
        port == Or8(high \div 256, low \div 256) * 256 + (low % 256)
    IN  big_to_native16(port, little_endian)

\* The loop of listen_packet over the peer string.
RECURSIVE decode_peers(_, _, _, _, _, _)
decode_peers(w, k, peer_string, i, char_signed, little_endian) ==
    IF i + 6 <= Len(peer_string)
    THEN decode_peers(
            [w EXCEPT !.tracker[k].new_peers =
                Append(@, [ip |-> read(peer_string, i, 4),
                           port |-> decode_port(peer_string[i + 5], peer_string[i + 6],
                                                char_signed, little_endian)])],
            k, peer_string, i + 6, char_signed, little_endian)
    ELSE w

\* What a tracker sends: per peer 4 address bytes and the port, most
\* significant byte first.
RECURSIVE encode_peers(_)
encode_peers(list) ==
    IF list = <<>> THEN <<>>
    ELSE list[1].ip \o write(list[1].port, 2) \o encode_peers(Tail(list))

Ports == {0, 127, 128, 6881, 32767, 32768, 65535}

PeerLists ==
    UNION {[1..n -> [ip : {<<10, 0, 0, 1>>}, port : Ports]] : n \in 0..MaxList}

\* Bytes after the last whole entry.
Tails == {<<>>, <<10, 0, 0, 2, 26>>}

\* The response handler of an HTTP tracker decodes the peers of a response
\* carrying list; the history keeps list.
HttpPeers(k, list, tail, char_signed, little_endian) ==
    /\ tracker[k].log = "none"
    /\ Commit(decode_peers(
            [W EXCEPT !.tracker[k].log = "valid",
                      !.hist.datagram = [NoDatagram EXCEPT !.announce = TRUE,
                                                           !.endpoints = list]],
            k, encode_peers(list) \o tail, 0, char_signed, little_endian))
    /\ UNCHANGED <<geo, scan, phase, events>>

NextHttp ==
    \E list \in PeerLists, tail \in Tails, char_signed, little_endian \in BOOLEAN :
        HttpPeers(1, list, tail, char_signed, little_endian)

SpecHttp == InitUdp /\ [][NextHttp]_vars

\* C32: decoding the compact peer list is the left inverse of encoding: the
\* endpoints handed on are those that were encoded, for every value of the
\* two port bytes; bytes after the last whole entry are ignored.
C32_DecodeInvertsEncode ==
    hist.datagram.announce => tracker[1].new_peers = hist.datagram.endpoints


(***************************************************************************)
(* Tracker sessions after a failure.                                       *)
(***************************************************************************)

\* Every enabled step of the tracker's handlers is eventually taken: the
\* io_context runs each completion handler that is ready.
SpecUdpFair == SpecUdp /\ WF_vars(NextUdp)

\* The session that was stored for announce has failed and the map holds no
\* session for it.
Dropped(announce) ==
    /\ trackers[announce] = None
    /\ \E k \in Trackers : Failed(k) /\ tracker[k].announce = announce

\* C33: after a tracker session is closed by a network error, a session for
\* the same announce URL is established again later; a failed tracker is not
\* dropped for the rest of the run.
C33_FailedTrackerReconnects ==
    \A announce \in Urls : Dropped(announce) ~> (trackers[announce] # None)


(***************************************************************************)
(* Block writes to completed pieces.                                       *)
(***************************************************************************)

\* Piece i was verified and counted: its bytes on disk are the torrent's,
\* its bit is set and on_piece_complete ran for it.
Verified(i) ==
    /\ hist.notified[i] > 0
    /\ has_piece(vec, i)
    /\ \A g \in BlocksIn(i * piece_length, TruePieceLength(i)) : disk[g]

\* C34: once piece i has been verified and counted complete, no later block
\* write changes any byte of piece i's file range.
C34_CompletePieceImmutable ==
    [][\A i \in 0..get_piece_count - 1 :
          Verified(i) =>
              \A g \in BlocksIn(i * piece_length, TruePieceLength(i)) :
                  disk'[g] = disk[g]]_vars


(***************************************************************************)
(* Sessions after change_state(Disconnected).                              *)
(***************************************************************************)

\* change_state(Disconnected) ran for session p and nothing has changed
\* its state since (a Peer is constructed Disconnected, with conn "none").
Terminal(p) ==
    /\ peer[p].state = "Disconnected"
    /\ peer[p].conn \in {"open", "closed"}

\* C35: Disconnected is terminal for a peer session: after
\* change_state(Disconnected), whatever the cause, the session has no socket
\* read outstanding, starts no block write and leaves the state no more (a
\* piece_success of the session is followed by change_state(Idle)).
C35_DisconnectedIsTerminal ==
    [][\A p \in Peers :
          Terminal(p) =>
              /\ peer'[p].conn = "closed"
              /\ peer'[p].state = "Disconnected"
              /\ \A wr \in BagToSet(writes') : wr.peer = p => BagIn(wr, writes)]_vars


\* C36: assign_piece never hands a peer session an index >= piece_count,
\* also when piece_count is not a multiple of 8 and the peer's Bitfield
\* message has the spare trailing bits set.
C36_AssignedIndexInRange ==
    \A p \in Peers :
        peer[p].current_piece_index # None =>
            peer[p].current_piece_index < get_piece_count


\* C37: the download-time verify (check_sha1_piece_async) and the resume-scan
\* verify (check_pieces_sha1) give the same verdict for the same on-disk
\* bytes of every piece, a last piece shorter than piece_length included.
C37_VerifiersAgree ==
    \A i \in 0..get_piece_count - 1 :
        check_sha1_piece_async(disk, i) <=> check_pieces_sha1(disk, i)


\* C38: current_block of a peer session stays within 0..block_count in every
\* reachable state, also after a write error rolls it back by
\* request_per_call, and piece_received never exceeds the number of requests
\* of the current batch, which is at most request_per_call.
C38_BlockCountersInRange ==
    \A p \in Peers :
        /\ peer[p].current_block >= 0
        /\ peer[p].current_block <= get_block_count
        /\ peer[p].piece_received <= request_per_call


(***************************************************************************)
(* The end of the download on several workers.  The handler installed by   *)
(* init_file calls Metadata::on_piece_complete and then                    *)
(* Metadata::is_file_complete; each takes and releases the Metadata mutex, *)
(* and the bitfield's mutex is released before the handler is called, so   *)
(* another worker's handler can run between the two calls.  The peers are  *)
(* well behaved and answer every Request at once; a worker that has        *)
(* counted a piece is at pc "test" with i the session whose write          *)
(* callback it runs (it holds that session's mutex).                       *)
(***************************************************************************)
\* The session's mutex is held by a worker inside its write callback.
Busy(p) == \E t \in Threads : scan[t].pc = "test" /\ scan[t].i = p

\* The peer answers the oldest outstanding Request of the session.
AnswerAtOnce(p) ==
    /\ ~Busy(p)
    /\ Free
    /\ UNCHANGED scan
    /\ \E r \in peer[p].outstanding :
            /\ \A q \in peer[p].outstanding : r.begin <= q.begin
            /\ RecvPiece(p, r.index, r.begin, r.length, TRUE)

\* The write callback of session p up to the return of
\* Metadata::on_piece_complete inside piece_success, for a piece that passed
\* its check.
on_write_finished_count(w0, p, hashed) ==
    LET w == lock(w0, "peer")
        cpi == w.peer[p].current_piece_index
        w1 == [w EXCEPT !.peer[p].piece_received = @ + 1,
                        !.hist.successes = @ \cup {[counted |-> cpi, hashed |-> hashed]}]
        w2 == Metadata_on_piece_complete(unlock(lock(w1, "bitfield"), "bitfield"), cpi)
    IN  [w2 EXCEPT !.hist.notified[cpi] = @ + 1]

\* The rest of the handler and of the write callback: is_file_complete,
\* extract_torrent and stop, then change_state(Idle).
on_write_finished_test(w, p) ==
    unlock(change_state(IF is_file_complete(w) THEN Pieces_stop(extract_torrent(w))
                        ELSE w, p, "Idle"), "peer")

\* Worker t runs the completion handler of the check c.
CheckCount(t, c) ==
    /\ Serving
    /\ scan[t].pc = "done"
    /\ BagIn(c, checks)
    /\ ~Busy(c.peer)
    /\ LET w0 == [W EXCEPT !.checks = @ (-) SetToBag({c})]
           finished == check_sha1_piece_async(w0.disk, c.index)
       IN  IF finished /\ w0.peer[c.peer].current_piece_index # None
              /\ w0.callback = "final"
           THEN /\ Commit(on_write_finished_count(w0, c.peer, c.index))
                /\ scan' = [scan EXCEPT ![t].pc = "test", ![t].i = c.peer]
           ELSE /\ Commit(on_write_finished(w0, c.peer, FALSE, finished, c.index))
                /\ scan' = scan
    /\ UNCHANGED <<geo, phase, events>>

CheckTest(t) ==
    /\ Serving
    /\ scan[t].pc = "test"
    /\ Commit(on_write_finished_test(W, scan[t].i))
    /\ scan' = [scan EXCEPT ![t].pc = "done", ![t].i = 0]
    /\ UNCHANGED <<geo, phase, events>>

FinishWriteDone ==
    \E wr \in BagToSet(writes) : ~Busy(wr.peer) /\ WriteDone(wr, FALSE)

NextFinish ==
    \/ \E p \in Peers : Add(p, p)
    \/ \E p \in Peers : ConnectDone(p, FALSE)
    \/ \E p \in Peers : HandshakeDone(p, FALSE, GenuineReply)
    \/ \E p \in Peers : ~Busy(p) /\ LiveBitfield(p)
    \/ \E p \in Peers : ~Busy(p) /\ LiveUnchoke(p)
    \/ \E p \in Peers : AnswerAtOnce(p)
    \/ FinishWriteDone
    \/ \E t \in Threads, c \in BagToSet(checks) : CheckCount(t, c)
    \/ \E t \in Threads : CheckTest(t)
    \/ \E p \in Peers : ~Busy(p) /\ TimerFire(p)

SpecFinish == InitLive /\ [][NextFinish]_vars

\* C39: extract_torrent and the completion stop() run exactly once per
\* download: when two sessions complete the last two pieces concurrently,
\* only one of them observes completion and performs the extraction.
C39_ExtractOnce == extracted <= 1


(***************************************************************************)
(* Choke and Unchoke during a download.                                    *)
(***************************************************************************)

\* The peer of session p has a piece that was never counted complete.
Lacking(p) ==
    \E i \in 0..get_piece_count - 1 :
        /\ peer[p].peer_bitfield # <<>>
        /\ has_piece(peer[p].peer_bitfield, i)
        /\ hist.notified[i] = 0

\* The step handles an Unchoke message of a session that was choked.
Unchoked(p) == peer[p].peer_choking /\ ~peer'[p].peer_choking

\* Session p has no assignment and no handler left that could make one:
\* assign_piece is called by change_state(Idle), which the Unchoke handler
\* calls in Handshook only and the write callback with a piece assigned
\* only, and by the retry timer, which acts in Idle only.
Unassignable(p) ==
    /\ peer[p].current_piece_index = None
    /\ peer[p].state = "DownloadingPiece"

\* C40: an Unchoke, also one that follows a Choke during a piece download,
\* leaves a session whose peer has a piece we lack with a piece assigned or
\* with an assignment still to come (Idle with its retry timer armed); it
\* never leaves the session permanently without an assignment.
C40_UnchokeReassigns ==
    [][\A p \in Peers :
          Unchoked(p) /\ peer'[p].conn = "open" /\ Lacking(p)'
              => ~Unassignable(p)']_vars


\* A session that is Unassignable stays so until it is Disconnected; this
\* holds in every step of Spec, and is what makes the state reached by a
\* Choke and an Unchoke permanent.
UnassignableIsPermanent ==
    [][\A p \in Peers :
          Unassignable(p) => Unassignable(p)' \/ peer'[p].state = "Disconnected"]_vars

====
